---- MODULE Spec2Model ----
(***************************************************************************)
(* Model of app.py: a Flask application that serves read-only "dissociate" *)
(* queries over a PostgreSQL schema ns (tables coordinates, metadata,      *)
(* annotations_terms).                                                     *)
(*                                                                         *)
(* Strings are sequences of one-character strings, so that split, strip,   *)
(* replace, startswith, int() and float() are computed character by        *)
(* character.  An optional value (Python None / an absent query argument)  *)
(* is a sequence of length 0 or 1.  A float is a record [k, v] with        *)
(* k = "fin" (v the value; the inputs used here are integral), "nan",      *)
(* "inf" (v the sign) or "null" (SQL NULL).                                *)
(***************************************************************************)
EXTENDS Integers, Sequences, FiniteSets, TLC

VARIABLES
    DB_URL,            \* os.environ["DB_URL"], optional string
    _engine,           \* module global _engine, optional engine handle
    created,           \* number of create_engine calls made so far
    coordinates,       \* table ns.coordinates: set of rows
    metadata,          \* table ns.metadata: set of rows
    annotations_terms, \* table ns.annotations_terms: set of rows
    request,           \* the request being served
    response,          \* the response produced for it
    trace,             \* what the handler did to the database for this request
    pc,                \* get_engine: position of each calling thread
    db_url,            \* get_engine: local db_url of each thread
    local_engine,      \* get_engine: value of create_engine(...) before the store
    ret,               \* get_engine: what each thread's last call returned/raised
    calls,             \* get_engine: number of calls each thread has started
    view_functions,    \* Flask app.view_functions: set of (endpoint, view function)
    rules,             \* number of decorators of create_app already applied
    app                \* module global app: "unbound", "bound" or "AssertionError"

vars == <<DB_URL, _engine, created, coordinates, metadata, annotations_terms,
          request, response, trace, pc, db_url, local_engine, ret, calls,
          view_functions, rules, app>>

(***************************************************************************)
(* Bounds of the model.                                                    *)
(***************************************************************************)
\* study ids are 1..MaxStudyId
MaxStudyId == 3
\* LIMIT 2000 of the locations query, scaled down so that the tables of the
\* model can exceed it
RowCap == 2
\* ids[:200] of the locations response, scaled down with RowCap
DisplayCap == 1
\* threads calling get_engine, and calls per thread
NumThreads == 2
MaxCalls == 2

(***************************************************************************)
(* Program constants.                                                      *)
(***************************************************************************)
DefaultLimit == 1000
MaxLimit == 5000
MetaCap == 100
SampleRows == 3

(***************************************************************************)
(* Generic helpers.                                                        *)
(***************************************************************************)
None == <<>>
Some(x) == <<x>>

Min(a, b) == IF a <= b THEN a ELSE b

\* s[:n]
Take(s, n) == SubSeq(s, 1, Min(n, Len(s)))

RECURSIVE SortedSeq(_)
\* the elements of a finite set of integers in ascending order (ORDER BY)
SortedSeq(S) ==
    IF S = {} THEN <<>>
    ELSE LET m == CHOOSE x \in S : \A y \in S : x <= y
         IN  <<m>> \o SortedSeq(S \ {m})

Range(s) == {s[i] : i \in 1..Len(s)}

(***************************************************************************)
(* Floats: Python float and PostgreSQL float8.                             *)
(***************************************************************************)
Fin(n) == [k |-> "fin", v |-> n]
NaN == [k |-> "nan", v |-> 0]
Inf(sign) == [k |-> "inf", v |-> sign]
NULL == [k |-> "null", v |-> 0]

Sign(n) == IF n > 0 THEN 1 ELSE IF n < 0 THEN -1 ELSE 0
FSign(a) == IF a.k = "fin" THEN Sign(a.v) ELSE a.v

\* a * b (IEEE 754; the finite values of the model do not overflow)
FMul(a, b) ==
    IF a.k = "nan" \/ b.k = "nan" THEN NaN
    ELSE IF a.k = "fin" /\ b.k = "fin" THEN Fin(a.v * b.v)
    ELSE IF FSign(a) = 0 \/ FSign(b) = 0 THEN NaN
    ELSE Inf(FSign(a) * FSign(b))

\* a + b
FAdd(a, b) ==
    IF a.k = "nan" \/ b.k = "nan" THEN NaN
    ELSE IF a.k = "fin" /\ b.k = "fin" THEN Fin(a.v + b.v)
    ELSE IF a.k = "inf" /\ b.k = "inf" THEN (IF a.v = b.v THEN a ELSE NaN)
    ELSE IF a.k = "inf" THEN a ELSE b

FNeg(a) == IF a.k = "fin" THEN Fin(-a.v) ELSE IF a.k = "inf" THEN Inf(-a.v) ELSE a

\* a - b
FSub(a, b) == FAdd(a, FNeg(b))

\* PostgreSQL's a <= b on float8: NaN equals NaN and is greater than every
\* other value
FLe(a, b) ==
    IF a.k = "nan" THEN b.k = "nan"
    ELSE IF b.k = "nan" THEN TRUE
    ELSE IF a.k = "inf" THEN (a.v = -1 \/ (b.k = "inf" /\ b.v = 1))
    ELSE IF b.k = "inf" THEN b.v = 1
    ELSE a.v <= b.v

(***************************************************************************)
(* Python string operations.                                               *)
(***************************************************************************)
Digits == <<"0", "1", "2", "3", "4", "5", "6", "7", "8", "9">>
IsDigit(c) == \E i \in 1..10 : Digits[i] = c
DigitVal(c) == (CHOOSE i \in 1..10 : Digits[i] = c) - 1

RECURSIVE DigitsVal(_)
DigitsVal(s) ==
    IF s = <<>> THEN 0
    ELSE 10 * DigitsVal(SubSeq(s, 1, Len(s) - 1)) + DigitVal(s[Len(s)])

AllDigits(s) == s # <<>> /\ \A i \in 1..Len(s) : IsDigit(s[i])

IsSpace(c) == c \in {" ", "\t", "\n", "\r"}

RECURSIVE LStrip(_)
LStrip(s) == IF s # <<>> /\ IsSpace(s[1]) THEN LStrip(Tail(s)) ELSE s

RECURSIVE RStrip(_)
RStrip(s) ==
    IF s # <<>> /\ IsSpace(s[Len(s)]) THEN RStrip(SubSeq(s, 1, Len(s) - 1)) ELSE s

\* s.strip()
Strip(s) == RStrip(LStrip(s))

\* s.replace(old, new) for one-character old and new
Replace(s, old, new) == [i \in 1..Len(s) |-> IF s[i] = old THEN new ELSE s[i]]

RECURSIVE Split(_, _)
\* s.split(sep) for a one-character sep: one more token than separators
Split(s, sep) ==
    IF \A i \in 1..Len(s) : s[i] # sep THEN <<s>>
    ELSE LET i == CHOOSE j \in 1..Len(s) :
                      s[j] = sep /\ \A h \in 1..(j - 1) : s[h] # sep
         IN  <<SubSeq(s, 1, i - 1)>> \o Split(SubSeq(s, i + 1, Len(s)), sep)

\* s.startswith(p)
StartsWith(s, p) == Len(s) >= Len(p) /\ SubSeq(s, 1, Len(p)) = p

\* the sign and the rest of a numeric literal
SignOf(t) == IF t # <<>> /\ t[1] = "-" THEN -1 ELSE 1
Unsigned(t) == IF t # <<>> /\ t[1] \in {"-", "+"} THEN Tail(t) ELSE t

\* int(s): None stands for ValueError
ParseInt(s) ==
    LET t == Strip(s)
    IN  IF AllDigits(Unsigned(t)) THEN Some(SignOf(t) * DigitsVal(Unsigned(t)))
        ELSE None

\* float(s): None stands for ValueError.  The literals of the model have no
\* fraction and no exponent.
ParseFloat(s) ==
    LET t == Strip(s)
        u == Unsigned(t)
    IN  IF AllDigits(u) THEN Some(Fin(SignOf(t) * DigitsVal(u)))
        ELSE IF u = <<"n", "a", "n">> THEN Some(NaN)
        ELSE IF u = <<"i", "n", "f">> THEN Some(Inf(SignOf(t)))
        ELSE None

(***************************************************************************)
(* The environment: connection strings and the contents of schema ns.      *)
(***************************************************************************)
PostgresPrefix == <<"p", "o", "s", "t", "g", "r", "e", "s", ":", "/", "/">>
PostgresqlPrefix == <<"p", "o", "s", "t", "g", "r", "e", "s", "q", "l", ":", "/", "/">>
Host == <<"h">>

\* values of the environment variable DB_URL: unset, empty, old and new scheme
DbUrls == {None, Some(<<>>), Some(PostgresPrefix \o Host), Some(PostgresqlPrefix \o Host)}

StudyIds == 1..MaxStudyId
Points == {<<0, 0, 0>>, <<2, 0, 0>>}

CoordRow(s, p) == [study_id |-> s, x |-> Fin(p[1]), y |-> Fin(p[2]), z |-> Fin(p[3])]
NullRow == [study_id |-> 1, x |-> NULL, y |-> Fin(0), z |-> Fin(0)]

\* the rows ns.coordinates is built from; every table of the model also
\* holds NullRow, a row whose x is NULL
CoordRows == {CoordRow(s, p) : s \in StudyIds, p \in Points}

MetaRow(s, t) == [study_id |-> s, title |-> t, journal |-> "J", year |-> 2000 + s]

\* the condition of the database while a request is served: reachable, not
\* reachable, or reachable with a coordinates table that has no geom column
DbConditions == {"up", "down", "no_geom"}

(***************************************************************************)
(* get_engine                                                              *)
(***************************************************************************)
\* not db_url
Falsy(o) == IF o = None THEN TRUE ELSE o[1] = <<>>

\* lines 18-19: the old scheme is rewritten
NormalizeUrl(u) ==
    IF StartsWith(u, PostgresPrefix)
    THEN PostgresqlPrefix \o SubSeq(u, Len(PostgresPrefix) + 1, Len(u))
    ELSE u

\* create_engine(db_url, pool_pre_ping=True): the n-th engine of the process.
\* No connection is made until the engine is used.
create_engine(u, n) == [id |-> n, url |-> u, pool_pre_ping |-> TRUE]

\* One whole call of get_engine with nothing running in between, from global
\* eng, environment value env and n engines created so far.
get_engine(eng, env, n) ==
    IF eng # None
    THEN [raised |-> FALSE, value |-> eng, global |-> eng, created |-> n]
    ELSE IF Falsy(env)
    THEN [raised |-> TRUE, value |-> None, global |-> eng, created |-> n]
    ELSE LET e == Some(create_engine(NormalizeUrl(env[1]), n + 1))
         IN  [raised |-> FALSE, value |-> e, global |-> e, created |-> n + 1]

(***************************************************************************)
(* Flask: what the framework answers when a view aborts or raises.         *)
(***************************************************************************)
\* abort(400, description)
Abort400(description) ==
    [status |-> 400, ctype |-> "html", body |-> [description |-> description]]

\* an exception that leaves the view function: the default 500 page
Unhandled500 ==
    [status |-> 500, ctype |-> "html", body |-> [description |-> "Internal Server Error"]]

\* jsonify(payload), status
Json(payload, status) == [status |-> status, ctype |-> "json", body |-> payload]

NoTrace(db) == [database |-> db, engine_calls |-> 0, begin |-> 0, sql |-> <<>>]

(***************************************************************************)
(* dissociate_locations (the definition of lines 166-255)                  *)
(***************************************************************************)
\* parse_xyz: None stands for abort(400, ...)
parse_xyz(s) ==
    LET toks == Split(s, "_")
        vals == [i \in 1..Len(toks) |-> ParseFloat(toks[i])]
    IN  IF (\E i \in 1..Len(toks) : vals[i] = None) \/ Len(toks) # 3
        THEN None
        ELSE Some([x |-> vals[1][1], y |-> vals[2][1], z |-> vals[3][1]])

\* float(request.args.get(name, "2")) with the fallback 2.0
RadiusArg(arg) ==
    LET p == ParseFloat(IF arg = None THEN <<"2">> ELSE arg[1])
    IN  IF p = None THEN Fin(2) ELSE p[1]

\* (x - :x0)*(x - :x0) + (y - :y0)*(y - :y0) + (z - :z0)*(z - :z0)
Dist2(row, c) ==
    LET dx == FSub(row.x, c.x)
        dy == FSub(row.y, c.y)
        dz == FSub(row.z, c.z)
    IN  FAdd(FAdd(FMul(dx, dx), FMul(dy, dy)), FMul(dz, dz))

\* WithinRadius with < written for <=: the boundary is left out
WithinRadius_Strict(row, c, r2) ==
    /\ row.x # NULL /\ row.y # NULL /\ row.z # NULL
    /\ FLe(Dist2(row, c), r2)
    /\ Dist2(row, c) # r2

\* WHERE x IS NOT NULL AND y IS NOT NULL AND z IS NOT NULL AND dist2 <= :r2
WithinRadius(row, c, r2) ==
    /\ row.x # NULL /\ row.y # NULL /\ row.z # NULL
    /\ FLe(Dist2(row, c), r2)

\* SELECT DISTINCT study_id FROM ns.coordinates WHERE ...
Ball(table, c, r2) == {row.study_id : row \in {r \in table : WithinRadius(r, c, r2)}}

\* AntiJoin without the WHERE b.study_id IS NULL: every row of a is kept
AntiJoin_NoFilter(a, b) == a

\* a LEFT JOIN b USING (study_id) WHERE b.study_id IS NULL
AntiJoin(a, b) == {s \in a : s \notin b}

\* the whole statement: ... ORDER BY a.study_id LIMIT 2000
LocationsQuery(table, c1, c2, rin2, rout2) ==
    Take(SortedSeq(AntiJoin(Ball(table, c1, rin2), Ball(table, c2, rout2))), RowCap)

\* SELECT ... FROM ns.metadata m WHERE m.study_id = ANY(:ids)
\* ORDER BY m.study_id LIMIT 100
SampleMetadata(table, ids) ==
    LET found == {s \in Range(ids) : \E m \in table : m.study_id = s}
        order == Take(SortedSeq(found), MetaCap)
    IN  [i \in 1..Len(order) |-> CHOOSE m \in table : m.study_id = order[i]]

\* a_but_not_b with count taken after the cut of the list
a_but_not_b_CountAfterCut(ids, meta) ==
    [count |-> Len(Take(ids, DisplayCap)), study_ids |-> Take(ids, DisplayCap),
     sample_metadata |-> meta]

\* the "a_but_not_b" object of the response
a_but_not_b(ids, meta) ==
    [count |-> Len(ids), study_ids |-> Take(ids, DisplayCap), sample_metadata |-> meta]

\* The handler, from the request and the state it reads, to the response,
\* the new engine state and what was done to the database.
dissociate_locations(coords1, coords2, args, db, eng, env, n) ==
    LET c1 == parse_xyz(coords1)
        c2 == parse_xyz(coords2)
        r_in == RadiusArg(args.r_in)
        r_out == RadiusArg(args.r_out)
        r_in2 == FMul(r_in, r_in)
        r_out2 == FMul(r_out, r_out)
        g == get_engine(eng, env, n)
        same == [global |-> eng, created |-> n]
    IN  IF c1 = None \/ c2 = None
        THEN [response |-> Abort400("Invalid coordinate format"),
              engine |-> same, trace |-> NoTrace(db)]
        ELSE IF g.raised
        THEN [response |-> Unhandled500, engine |-> same,
              trace |-> [NoTrace(db) EXCEPT !.engine_calls = 1]]
        ELSE IF db = "down"
        THEN [response |-> Unhandled500,
              engine |-> [global |-> g.global, created |-> g.created],
              trace |-> [NoTrace(db) EXCEPT !.engine_calls = 1, !.begin = 1]]
        ELSE LET ids == LocationsQuery(coordinates, c1[1], c2[1], r_in2, r_out2)
                 meta == IF ids # <<>> THEN SampleMetadata(metadata, ids) ELSE <<>>
             IN  [response |->
                      Json([ok |-> TRUE,
                            mode |-> "locations_xyzdist",
                            params |-> [coord_a |-> c1[1], coord_b |-> c2[1],
                                        r_in |-> r_in, r_out |-> r_out],
                            a_but_not_b |-> a_but_not_b(ids, meta)], 200),
                  engine |-> [global |-> g.global, created |-> g.created],
                  trace |-> [database |-> db, engine_calls |-> 1, begin |-> 1,
                             sql |-> <<"search_path",
                                       [stmt |-> "locations", x1 |-> c1[1].x,
                                        y1 |-> c1[1].y, z1 |-> c1[1].z, rin2 |-> r_in2,
                                        x2 |-> c2[1].x, y2 |-> c2[1].y, z2 |-> c2[1].z,
                                        rout2 |-> r_out2, result |-> ids]>>
                                    \o (IF ids # <<>> THEN <<"sample_metadata">> ELSE <<>>)]]

(***************************************************************************)
(* dissociate_terms                                                        *)
(***************************************************************************)
\* norm without the strip()
norm_NoStrip(s) == Replace(s, "_", " ")

\* norm: underscores become spaces, then strip()
norm(s) == Strip(Replace(s, "_", " "))

\* f"%{norm(term)}%"
Pattern(term) == <<"%">> \o norm(term) \o <<"%">>

\* LimitArg without the upper check: only limit <= 0 is replaced
LimitArg_NoUpperCheck(arg) ==
    LET p == ParseInt(IF arg = None THEN <<"1", "0", "0", "0">> ELSE arg[1])
    IN  IF p = None THEN DefaultLimit
        ELSE IF p[1] <= 0 THEN DefaultLimit
        ELSE p[1]

\* the ?limit= argument: int(request.args.get("limit", "1000")), replaced by
\* 1000 when int() raises or the value is <= 0 or > 5000
LimitArg(arg) ==
    LET p == ParseInt(IF arg = None THEN <<"1", "0", "0", "0">> ELSE arg[1])
    IN  IF p = None THEN DefaultLimit
        ELSE IF p[1] <= 0 \/ p[1] > MaxLimit THEN DefaultLimit
        ELSE p[1]

UpperCase == <<"A", "B">>
LowerCase == <<"a", "b">>
LowerChar(c) ==
    IF \E i \in 1..Len(UpperCase) : UpperCase[i] = c
    THEN LowerCase[CHOOSE i \in 1..Len(UpperCase) : UpperCase[i] = c]
    ELSE c
Lower(s) == [i \in 1..Len(s) |-> LowerChar(s[i])]

RECURSIVE Like(_, _)
\* PostgreSQL's s LIKE p: % matches any run of characters, _ any one character
Like(s, p) ==
    IF p = <<>> THEN s = <<>>
    ELSE IF p[1] = "%" THEN Like(s, Tail(p)) \/ (s # <<>> /\ Like(Tail(s), p))
    ELSE /\ s # <<>>
         /\ (p[1] = "_" \/ p[1] = s[1])
         /\ Like(Tail(s), Tail(p))

\* title ILIKE p, for an optional title (None is NULL); NULL ILIKE p is NULL,
\* which no WHERE clause accepts, negated or not
ILike(title, p) == title # None /\ Like(Lower(title[1]), Lower(p))
NotILike(title, p) == title # None /\ ~Like(Lower(title[1]), Lower(p))

\* SELECT study_id, title, journal, year FROM ns.metadata
\* WHERE title ILIKE :pat_a AND title NOT ILIKE :pat_b
\* ORDER BY study_id LIMIT :lim
TermsQuery(table, pat_a, pat_b, lim) ==
    LET hits == {m \in table : ILike(m.title, pat_a) /\ NotILike(m.title, pat_b)}
        order == Take(SortedSeq({m.study_id : m \in hits}), lim)
    IN  [i \in 1..Len(order) |-> CHOOSE m \in hits : m.study_id = order[i]]

\* The handler, from the request and the state it reads, to the response,
\* the new engine state and what was done to the database.
dissociate_terms(term_a, term_b, args, db, eng, env, n) ==
    LET pat_a == Pattern(term_a)
        pat_b == Pattern(term_b)
        limit == LimitArg(args.limit)
        g == get_engine(eng, env, n)
    IN  IF g.raised
        THEN [response |-> Unhandled500, engine |-> [global |-> eng, created |-> n],
              trace |-> [NoTrace(db) EXCEPT !.engine_calls = 1]]
        ELSE IF db = "down"
        THEN [response |-> Unhandled500,
              engine |-> [global |-> g.global, created |-> g.created],
              trace |-> [NoTrace(db) EXCEPT !.engine_calls = 1, !.begin = 1]]
        ELSE LET results == TermsQuery(metadata, pat_a, pat_b, limit)
             IN  [response |->
                      Json([ok |-> TRUE,
                            mode |-> "title_contains_a_not_b",
                            params |-> [term_a |-> term_a, term_b |-> term_b],
                            count |-> Len(results),
                            studies |-> results], 200),
                  engine |-> [global |-> g.global, created |-> g.created],
                  trace |-> [database |-> db, engine_calls |-> 1, begin |-> 1,
                             sql |-> <<"search_path",
                                       [stmt |-> "terms", pat_a |-> pat_a,
                                        pat_b |-> pat_b, lim |-> limit,
                                        result |-> results]>>]]

(***************************************************************************)
(* test_db                                                                 *)
(***************************************************************************)
\* SELECT ... FROM table LIMIT 3: any SampleRows rows of the table, or all of
\* them when it has fewer
Samples(table) ==
    {S \in SUBSET table : Cardinality(S) = Min(SampleRows, Cardinality(table))}

\* The handler.  cs, ms, as are the rows the three LIMIT 3 statements return.
\* A statement that fails inside the transaction is caught by its own try,
\* and PostgreSQL then refuses every later statement of the transaction, which
\* the later tries catch too.
test_db(db, eng, env, n, cs, ms, as) ==
    LET g == get_engine(eng, env, n)
        payload == [ok |-> FALSE, dialect |-> "postgresql"]
        engine == [global |-> g.global, created |-> g.created]
        counts == <<"search_path", "version", "count_coordinates", "count_metadata",
                    "count_annotations_terms">>
        sampled == <<"sample_coordinates", "sample_metadata", "sample_annotations_terms">>
    IN  IF g.raised
        THEN [response |-> Unhandled500, engine |-> [global |-> eng, created |-> n],
              trace |-> [NoTrace(db) EXCEPT !.engine_calls = 1]]
        ELSE IF db = "down"
        THEN [response |->
                  Json([ok |-> FALSE, dialect |-> "postgresql",
                        error |-> "OperationalError"], 500),
              engine |-> engine,
              trace |-> [NoTrace(db) EXCEPT !.engine_calls = 1, !.begin = 1]]
        ELSE [response |->
                  Json([ok |-> TRUE, dialect |-> "postgresql",
                        version |-> "PostgreSQL",
                        coordinates_count |-> Cardinality(coordinates),
                        metadata_count |-> Cardinality(metadata),
                        annotations_terms_count |-> Cardinality(annotations_terms),
                        coordinates_sample |-> IF db = "no_geom" THEN {} ELSE cs,
                        metadata_sample |-> IF db = "no_geom" THEN {} ELSE ms,
                        annotations_terms_sample |-> IF db = "no_geom" THEN {} ELSE as],
                       200),
              engine |-> engine,
              trace |-> [database |-> db, engine_calls |-> 1, begin |-> 1,
                         sql |-> counts \o sampled]]

(***************************************************************************)
(* Requests served by the view functions.  The view functions keep no      *)
(* state between requests except _engine, so a behaviour is: any earlier   *)
(* request that initialised the engine, then the request under             *)
(* observation.                                                            *)
(***************************************************************************)
Str0_0_0 == <<"0", "_", "0", "_", "0">>
Str2_0_0 == <<"2", "_", "0", "_", "0">>
StrNan_0_0 == <<"n", "a", "n", "_", "0", "_", "0">>
Str0_0 == <<"0", "_", "0">>
StrX_0_0 == <<"x", "_", "0", "_", "0">>

\* the <coords1> and <coords2> path segments tried
CoordStrings == {Str0_0_0, Str2_0_0, StrNan_0_0, Str0_0, StrX_0_0}

\* the values of ?r_in= and ?r_out= tried: absent, 0, -2, x
RadiusArgs == {None, Some(<<"0">>), Some(<<"-", "2">>), Some(<<"x">>)}

Threads == 1..NumThreads

\* the parts of the state the view functions do not touch
ProcessVars == <<pc, db_url, local_engine, ret, calls, view_functions, rules, app>>
Tables == <<coordinates, metadata, annotations_terms>>

InitProcess ==
    /\ pc = [t \in Threads |-> "idle"]
    /\ db_url = [t \in Threads |-> None]
    /\ local_engine = [t \in Threads |-> None]
    /\ ret = [t \in Threads |-> None]
    /\ calls = [t \in Threads |-> 0]
    /\ view_functions = {}
    /\ rules = 0
    /\ app = "unbound"

InitRequest ==
    /\ _engine = None
    /\ created = 0
    /\ request = None
    /\ response = None
    /\ trace = NoTrace("up")

Init ==
    /\ DB_URL \in {None, Some(PostgresPrefix \o Host)}
    /\ coordinates \in {S \cup {NullRow} : S \in SUBSET CoordRows}
    /\ metadata = {MetaRow(s, Some(<<"a">>)) : s \in 2..MaxStudyId}
    /\ annotations_terms =
           {[study_id |-> 1, contrast_id |-> 1, term |-> <<"a">>, weight |-> 1]}
    /\ InitRequest
    /\ InitProcess

\* the outcome r of a view function becomes the new state
Served(req, r) ==
    /\ request' = Some(req)
    /\ response' = Some(r.response)
    /\ trace' = r.trace
    /\ _engine' = r.engine.global
    /\ created' = r.engine.created
    /\ UNCHANGED <<DB_URL, Tables, ProcessVars>>

\* an earlier request reached get_engine() and initialised the engine
EarlierRequest ==
    /\ request = None
    /\ _engine = None
    /\ ~get_engine(_engine, DB_URL, created).raised
    /\ _engine' = get_engine(_engine, DB_URL, created).global
    /\ created' = get_engine(_engine, DB_URL, created).created
    /\ UNCHANGED <<DB_URL, Tables, request, response, trace, ProcessVars>>

\* GET /dissociate/locations/<coords1>/<coords2>?r_in=&r_out=
DissociateLocations ==
    /\ request = None
    /\ \E coords1 \in CoordStrings, coords2 \in CoordStrings,
          r_in \in RadiusArgs, r_out \in RadiusArgs, db \in {"up", "down"} :
          LET args == [r_in |-> r_in, r_out |-> r_out]
          IN  Served([route |-> "dissociate_locations", coords1 |-> coords1,
                      coords2 |-> coords2, args |-> args],
                     dissociate_locations(coords1, coords2, args, db,
                                          _engine, DB_URL, created))

\* GET /test_db
TestDb ==
    /\ request = None
    /\ \E db \in DbConditions, cs \in Samples(coordinates), ms \in Samples(metadata),
          as \in Samples(annotations_terms) :
          Served([route |-> "test_db"],
                 test_db(db, _engine, DB_URL, created, cs, ms, as))

Next == EarlierRequest \/ DissociateLocations \/ TestDb

Spec == Init /\ [][Next]_vars

(***************************************************************************)
(* Requests to /dissociate/terms, over varying contents of ns.metadata.    *)
(***************************************************************************)
\* the <term_a> and <term_b> path segments tried: a, A_, a_b, b, %
TermStrings == {<<"a">>, <<"A", "_">>, <<"a", "_", "b">>, <<"b">>, <<"%">>}

\* the values of ?limit= tried: absent, x, 0, -1, 1, 2, 5000, 5001
LimitArgs == {None, Some(<<"x">>), Some(<<"0">>), Some(<<"-", "1">>), Some(<<"1">>),
              Some(<<"2">>), Some(<<"5", "0", "0", "0">>), Some(<<"5", "0", "0", "1">>)}

\* the titles a study may have: "a b", "A", NULL
Titles == {Some(<<"a", " ", "b">>), Some(<<"A">>), None}

\* the tables ns.metadata may be: each study absent or present with a title
MetadataTables ==
    {{MetaRow(s, f[s][1]) : s \in {i \in StudyIds : f[i] # None}} :
        f \in [StudyIds -> {None} \cup {Some(t) : t \in Titles}]}

InitTerms ==
    /\ DB_URL \in {None, Some(PostgresqlPrefix \o Host)}
    /\ coordinates = {NullRow}
    /\ metadata \in MetadataTables
    /\ annotations_terms = {}
    /\ InitRequest
    /\ InitProcess

\* GET /dissociate/terms/<term_a>/<term_b>?limit=
DissociateTerms ==
    /\ request = None
    /\ \E term_a \in TermStrings, term_b \in TermStrings, limit \in LimitArgs,
          db \in {"up", "down"} :
          LET args == [limit |-> limit]
          IN  Served([route |-> "dissociate_terms", term_a |-> term_a,
                      term_b |-> term_b, args |-> args],
                     dissociate_terms(term_a, term_b, args, db,
                                      _engine, DB_URL, created))

NextTerms == EarlierRequest \/ DissociateTerms

SpecTerms == InitTerms /\ [][NextTerms]_vars

(***************************************************************************)
(* Dissociation of a condition from itself: both dissociate endpoints,     *)
(* the second condition either the first one again or a fixed other one.   *)
(* Neither handler reads the table the other one filters, so the tables    *)
(* vary one at a time.                                                     *)
(***************************************************************************)
InitSame ==
    /\ DB_URL = Some(PostgresPrefix \o Host)
    /\ \/ /\ coordinates \in {S \cup {NullRow} : S \in SUBSET CoordRows}
          /\ metadata = {MetaRow(s, Some(<<"a">>)) : s \in 2..MaxStudyId}
       \/ /\ coordinates = {NullRow}
          /\ metadata \in MetadataTables
    /\ annotations_terms = {}
    /\ InitRequest
    /\ InitProcess

\* GET /dissociate/locations/<c>/<c> and /dissociate/locations/<c>/0_0_0
DissociateSameLocations ==
    /\ request = None
    /\ \E coords1 \in CoordStrings, other \in BOOLEAN,
          r_in \in RadiusArgs, r_out \in RadiusArgs, db \in {"up", "down"} :
          LET args == [r_in |-> r_in, r_out |-> r_out]
              coords2 == IF other THEN Str0_0_0 ELSE coords1
          IN  Served([route |-> "dissociate_locations", coords1 |-> coords1,
                      coords2 |-> coords2, args |-> args],
                     dissociate_locations(coords1, coords2, args, db,
                                          _engine, DB_URL, created))

\* GET /dissociate/terms/<t>/<t> and /dissociate/terms/<t>/b
DissociateSameTerms ==
    /\ request = None
    /\ \E term_a \in TermStrings, other \in BOOLEAN, limit \in LimitArgs,
          db \in {"up", "down"} :
          LET args == [limit |-> limit]
              term_b == IF other THEN <<"b">> ELSE term_a
          IN  Served([route |-> "dissociate_terms", term_a |-> term_a,
                      term_b |-> term_b, args |-> args],
                     dissociate_terms(term_a, term_b, args, db,
                                      _engine, DB_URL, created))

NextSame == EarlierRequest \/ DissociateSameLocations \/ DissociateSameTerms

SpecSame == InitSame /\ [][NextSame]_vars

(***************************************************************************)
(* /dissociate/terms over every short raw term, for the normaliser.        *)
(***************************************************************************)
\* raw terms are the strings over TermAlphabet of length at most MaxTermLen
MaxTermLen == 3
TermAlphabet == {"a", "B", "_", " "}
RawTerms == UNION {[1..n -> TermAlphabet] : n \in 0..MaxTermLen}

InitNorm ==
    /\ DB_URL = Some(PostgresqlPrefix \o Host)
    /\ coordinates = {NullRow}
    /\ metadata = {MetaRow(1, Some(<<"a", " ", "b">>)), MetaRow(2, Some(<<"A">>))}
    /\ annotations_terms = {}
    /\ InitRequest
    /\ InitProcess

\* GET /dissociate/terms/<term_a>/<term_b>, one of the two terms any raw term
DissociateRawTerms ==
    /\ request = None
    /\ \E t \in RawTerms, u \in TermStrings, swap \in BOOLEAN :
          LET args == [limit |-> None]
              term_a == IF swap THEN u ELSE t
              term_b == IF swap THEN t ELSE u
          IN  Served([route |-> "dissociate_terms", term_a |-> term_a,
                      term_b |-> term_b, args |-> args],
                     dissociate_terms(term_a, term_b, args, "up",
                                      _engine, DB_URL, created))

NextNorm == DissociateRawTerms

SpecNorm == InitNorm /\ [][NextNorm]_vars

(***************************************************************************)
(* The process: the import of the module runs create_app, and threads call *)
(* get_engine, one bytecode-level step at a time.                          *)
(***************************************************************************)
\* the @app.get(rule, endpoint=...) decorators of create_app in source order;
\* view is the function object decorated, named by the line of its def
Decorators ==
    <<[endpoint |-> "health", view |-> "health@30"],
      [endpoint |-> "show_img", view |-> "show_img@34"],
      [endpoint |-> "dissociate_terms", view |-> "dissociate_terms@43"],
      [endpoint |-> "dissociate_locations", view |-> "dissociate_locations@105"],
      [endpoint |-> "dissociate_locations", view |-> "dissociate_locations@167"],
      [endpoint |-> "test_db", view |-> "test_db@260"]>>

\* Flask.add_url_rule: an endpoint that already maps to another function is
\* refused with an AssertionError
Overwrites(vf, d) == \E e \in vf : e.endpoint = d.endpoint /\ e.view # d.view

\* the next decorator of create_app is applied; after the last one create_app
\* returns and the module binds app
Register ==
    /\ app = "unbound"
    /\ rules < Len(Decorators)
    /\ LET d == Decorators[rules + 1]
       IN  IF Overwrites(view_functions, d)
           THEN /\ app' = "AssertionError"
                /\ UNCHANGED <<view_functions, rules>>
           ELSE /\ view_functions' = view_functions \cup {d}
                /\ rules' = rules + 1
                /\ app' = IF rules + 1 = Len(Decorators) THEN "bound" ELSE "unbound"
    /\ UNCHANGED <<DB_URL, _engine, created, Tables, request, response, trace,
                   pc, db_url, local_engine, ret, calls>>

AppVars == <<view_functions, rules, app>>
RequestVars == <<Tables, request, response, trace>>

\* a thread calls get_engine()
Call(t) ==
    /\ pc[t] = "idle"
    /\ calls[t] < MaxCalls
    /\ calls' = [calls EXCEPT ![t] = @ + 1]
    /\ pc' = [pc EXCEPT ![t] = "line12"]
    /\ UNCHANGED <<DB_URL, _engine, created, db_url, local_engine, ret,
                   RequestVars, AppVars>>

\* lines 12-13: if _engine is not None: return _engine
Check(t) ==
    /\ pc[t] = "line12"
    /\ IF _engine # None
       THEN /\ ret' = [ret EXCEPT ![t] = Some([raised |-> FALSE, value |-> _engine])]
            /\ pc' = [pc EXCEPT ![t] = "idle"]
       ELSE /\ pc' = [pc EXCEPT ![t] = "line14"]
            /\ UNCHANGED ret
    /\ UNCHANGED <<DB_URL, _engine, created, db_url, local_engine, calls,
                   RequestVars, AppVars>>

\* lines 14-19: db_url = os.getenv("DB_URL"); raise when it is missing;
\* rewrite the old scheme
Getenv(t) ==
    /\ pc[t] = "line14"
    /\ IF Falsy(DB_URL)
       THEN /\ ret' = [ret EXCEPT ![t] = Some([raised |-> TRUE, value |-> None])]
            /\ pc' = [pc EXCEPT ![t] = "idle"]
            /\ UNCHANGED db_url
       ELSE /\ db_url' = [db_url EXCEPT ![t] = Some(NormalizeUrl(DB_URL[1]))]
            /\ pc' = [pc EXCEPT ![t] = "line20"]
            /\ UNCHANGED ret
    /\ UNCHANGED <<DB_URL, _engine, created, local_engine, calls,
                   RequestVars, AppVars>>

\* lines 20-23, the call: create_engine(db_url, pool_pre_ping=True)
Create(t) ==
    /\ pc[t] = "line20"
    /\ local_engine' = [local_engine EXCEPT
                            ![t] = Some(create_engine(db_url[t][1], created + 1))]
    /\ created' = created + 1
    /\ pc' = [pc EXCEPT ![t] = "store"]
    /\ UNCHANGED <<DB_URL, _engine, db_url, ret, calls, RequestVars, AppVars>>

\* line 20, the assignment: _engine = <the new engine>
Store(t) ==
    /\ pc[t] = "store"
    /\ _engine' = local_engine[t]
    /\ pc' = [pc EXCEPT ![t] = "line24"]
    /\ UNCHANGED <<DB_URL, created, db_url, local_engine, ret, calls,
                   RequestVars, AppVars>>

\* line 24: return _engine (the global is read again)
Return(t) ==
    /\ pc[t] = "line24"
    /\ ret' = [ret EXCEPT ![t] = Some([raised |-> FALSE, value |-> _engine])]
    /\ pc' = [pc EXCEPT ![t] = "idle"]
    /\ UNCHANGED <<DB_URL, _engine, created, db_url, local_engine, calls,
                   RequestVars, AppVars>>

\* the environment variable, missing so far, is set
Setenv ==
    /\ Falsy(DB_URL)
    /\ DB_URL' \in {u \in DbUrls : ~Falsy(u)}
    /\ UNCHANGED <<_engine, created, pc, db_url, local_engine, ret, calls,
                   RequestVars, AppVars>>

InitProc ==
    /\ DB_URL \in DbUrls
    /\ coordinates = {NullRow}
    /\ metadata = {}
    /\ annotations_terms = {}
    /\ InitRequest
    /\ InitProcess

NextProcess ==
    \/ Register
    \/ Setenv
    \/ \E t \in Threads : Call(t)
    \/ \E t \in Threads : Check(t)
    \/ \E t \in Threads : Getenv(t)
    \/ \E t \in Threads : Create(t)
    \/ \E t \in Threads : Store(t)
    \/ \E t \in Threads : Return(t)

SpecProcess == InitProc /\ [][NextProcess]_vars

(***************************************************************************)
(* Properties.                                                             *)
(***************************************************************************)
Handled(route) == request # None /\ request[1].route = route
Req == request[1]
Resp == response[1]

\* the statement of the dissociate query the handler executed, if any
Queried == Len(trace.sql) >= 2
Stmt == trace.sql[2]

IsFinite(a) == a.k = "fin"

\* a coordinate string that is not three finite numbers joined by "_"
Malformed(s) ==
    LET toks == Split(s, "_")
    IN  \/ Len(toks) # 3
        \/ \E i \in 1..Len(toks) :
              IF ParseFloat(toks[i]) = None THEN TRUE
              ELSE ~IsFinite(ParseFloat(toks[i])[1])

\* a successful locations response all of whose parameters are finite
FiniteLocations ==
    /\ Handled("dissociate_locations")
    /\ Resp.status = 200
    /\ \A c \in {Resp.body.params.coord_a, Resp.body.params.coord_b} :
          IsFinite(c.x) /\ IsFinite(c.y) /\ IsFinite(c.z)
    /\ IsFinite(Resp.body.params.r_in)
    /\ IsFinite(Resp.body.params.r_out)

\* squared distance of a row with known coordinates to the point c
SqDist(row, c) ==
    (row.x.v - c.x.v) * (row.x.v - c.x.v)
    + (row.y.v - c.y.v) * (row.y.v - c.y.v)
    + (row.z.v - c.z.v) * (row.z.v - c.z.v)

\* study s has a coordinate record within r of c, boundary included
Near(s, c, r) ==
    \E row \in coordinates :
        /\ row.study_id = s
        /\ IsFinite(row.x) /\ IsFinite(row.y) /\ IsFinite(row.z)
        /\ SqDist(row, c) <= r.v * r.v

\* the studies near coord_a and not near coord_b, for the request served
AMinusB ==
    {s \in {row.study_id : row \in coordinates} :
        /\ Near(s, Resp.body.params.coord_a, Resp.body.params.r_in)
        /\ ~Near(s, Resp.body.params.coord_b, Resp.body.params.r_out)}

Ascending(q) == \A i \in 1..Len(q), j \in 1..Len(q) : i < j => q[i] < q[j]

\* C1: a request to /dissociate/locations with a malformed coordinate string
\* (token count other than 3, a non-numeric token, a non-finite value) gets a
\* 400-class response and touches neither the engine nor the database.
C1_MalformedRejected ==
    (Handled("dissociate_locations")
     /\ (Malformed(Req.coords1) \/ Malformed(Req.coords2)))
    => /\ Resp.status \in 400..499
       /\ trace.engine_calls = 0
       /\ trace.begin = 0
       /\ trace.sql = <<>>

\* C2: for a valid request the rows the locations query returns are the
\* studies near c1 (boundary included) and not near c2, in ascending order
\* without duplicates, cut after RowCap rows.
C2_ResultIsFirstRowsOfAMinusB ==
    FiniteLocations =>
        /\ Queried
        /\ Ascending(Stmt.result)
        /\ Range(Stmt.result) \subseteq AMinusB
        /\ Len(Stmt.result) <= RowCap
        /\ \A s \in AMinusB \ Range(Stmt.result) :
              /\ Len(Stmt.result) = RowCap
              /\ \A i \in 1..Len(Stmt.result) : Stmt.result[i] < s

\* C2 witness: a response with a study returned only because it lies exactly
\* on the boundary of the inner ball, while another study near c1 is removed
\* because it is also near c2.
C2_Witness ==
    /\ FiniteLocations
    /\ \E s \in Range(Stmt.result) :
          \A row \in coordinates :
              row.study_id = s /\ IsFinite(row.x) =>
                  SqDist(row, Resp.body.params.coord_a)
                      = Resp.body.params.r_in.v * Resp.body.params.r_in.v
    /\ \E s \in StudyIds :
          /\ Near(s, Resp.body.params.coord_a, Resp.body.params.r_in)
          /\ Near(s, Resp.body.params.coord_b, Resp.body.params.r_out)
    /\ Resp.body.params.r_in.v > 0

\* the two conditions of the request served are the same condition
SameLocations ==
    /\ Handled("dissociate_locations")
    /\ Resp.status = 200
    /\ Resp.body.params.coord_a = Resp.body.params.coord_b
    /\ Resp.body.params.r_in = Resp.body.params.r_out

SameTerms ==
    /\ Handled("dissociate_terms")
    /\ Resp.status = 200
    /\ Req.term_a = Req.term_b

\* C3: dissociating a condition from itself is empty whatever the tables
\* hold: identical coordinates with equal radii give count 0 and no
\* study_ids, and term_a = term_b gives count 0 and no studies.
C3_SelfDissociationEmpty ==
    /\ SameLocations =>
           /\ Resp.body.a_but_not_b.count = 0
           /\ Resp.body.a_but_not_b.study_ids = <<>>
    /\ SameTerms =>
           /\ Resp.body.count = 0
           /\ Resp.body.studies = <<>>

\* C3 witness: a self-dissociation by location whose ball holds studies.
C3_Witness ==
    /\ SameLocations
    /\ FiniteLocations
    /\ \E s \in StudyIds : Near(s, Resp.body.params.coord_a, Resp.body.params.r_in)

\* C4 as claimed: count is the length of the query result, study_ids is its
\* first DisplayCap entries, and count is the size of A \ B.
C4_CountIsSizeOfAMinusB ==
    FiniteLocations =>
        /\ Resp.body.a_but_not_b.count = Len(Stmt.result)
        /\ Len(Resp.body.a_but_not_b.study_ids) <= DisplayCap
        /\ Resp.body.a_but_not_b.study_ids = Take(Stmt.result, DisplayCap)
        /\ Resp.body.a_but_not_b.count = Cardinality(AMinusB)

\* C4 as amended: count is the length of the query result, study_ids is its
\* first DisplayCap entries, and count is the size of A \ B up to the row
\* limit of the query: min(|A \ B|, RowCap).
C4_CountIsCappedSizeOfAMinusB ==
    FiniteLocations =>
        /\ Resp.body.a_but_not_b.count = Len(Stmt.result)
        /\ Len(Resp.body.a_but_not_b.study_ids) <= DisplayCap
        /\ Resp.body.a_but_not_b.study_ids = Take(Stmt.result, DisplayCap)
        /\ Resp.body.a_but_not_b.count = Min(Cardinality(AMinusB), RowCap)

\* C4 witness: a response whose A \ B exceeds the row limit, so that both
\* the row limit and the display cut apply.
C4_Witness ==
    /\ FiniteLocations
    /\ Cardinality(AMinusB) > RowCap
    /\ Len(Resp.body.a_but_not_b.study_ids) < Resp.body.a_but_not_b.count

\* the request served went to the database and the database failed it
DatabaseFault == request # None /\ trace.begin = 1 /\ trace.database # "up"

\* C5: a database fault during a request gives 500 with a JSON body that has
\* ok = false and an error field.
C5_FaultGivesJson500 ==
    DatabaseFault =>
        /\ Resp.status = 500
        /\ Resp.ctype = "json"
        /\ Resp.body.ok = FALSE
        /\ "error" \in DOMAIN Resp.body

\* the radius argument is a negative number
NegativeArg(arg) ==
    IF arg = None THEN FALSE
    ELSE IF ParseFloat(arg[1]) = None THEN FALSE
    ELSE FSign(ParseFloat(arg[1])[1]) = -1

\* C6: a negative r_in or r_out is rejected or clamped: no query is run whose
\* threshold is the square of the negative radius.
C6_NegativeRadiusNotUsed ==
    /\ (Handled("dissociate_locations") /\ NegativeArg(Req.args.r_in)) =>
           ~(Queried /\ Stmt.rin2 = FMul(ParseFloat(Req.args.r_in[1])[1],
                                        ParseFloat(Req.args.r_in[1])[1]))
    /\ (Handled("dissociate_locations") /\ NegativeArg(Req.args.r_out)) =>
           ~(Queried /\ Stmt.rout2 = FMul(ParseFloat(Req.args.r_out[1])[1],
                                         ParseFloat(Req.args.r_out[1])[1]))

\* w is raw with every underscore turned into a space and the whitespace at
\* both ends removed, nothing else changed
IsTrimmedSpaced(raw, w) ==
    LET spaced == [k \in 1..Len(raw) |-> IF raw[k] = "_" THEN " " ELSE raw[k]]
    IN  \E i \in 1..(Len(raw) + 1), j \in 0..Len(raw) :
            /\ Len(w) = (IF j >= i THEN j - i + 1 ELSE 0)
            /\ \A k \in 1..Len(w) : w[k] = spaced[i + k - 1]
            /\ \A k \in 1..Len(raw) : (k < i \/ k > j) => IsSpace(spaced[k])
            /\ w # <<>> => (~IsSpace(w[1]) /\ ~IsSpace(w[Len(w)]))

\* C7 as claimed: the patterns are % + the term with underscores replaced by
\* spaces, stripped and lowercased + %.
C7_PatternsLowercased ==
    (Handled("dissociate_terms") /\ Queried) =>
        /\ Stmt.pat_a = <<"%">> \o Lower(Strip(Replace(Req.term_a, "_", " "))) \o <<"%">>
        /\ Stmt.pat_b = <<"%">> \o Lower(Strip(Replace(Req.term_b, "_", " "))) \o <<"%">>

\* C7 as amended: the patterns are % + the term with underscores replaced by
\* spaces and stripped, its case unchanged + %.
C7_PatternsTrimmedSpaced ==
    (Handled("dissociate_terms") /\ Queried) =>
        /\ Len(Stmt.pat_a) >= 2 /\ Len(Stmt.pat_b) >= 2
        /\ Stmt.pat_a[1] = "%" /\ Stmt.pat_a[Len(Stmt.pat_a)] = "%"
        /\ Stmt.pat_b[1] = "%" /\ Stmt.pat_b[Len(Stmt.pat_b)] = "%"
        /\ IsTrimmedSpaced(Req.term_a, SubSeq(Stmt.pat_a, 2, Len(Stmt.pat_a) - 1))
        /\ IsTrimmedSpaced(Req.term_b, SubSeq(Stmt.pat_b, 2, Len(Stmt.pat_b) - 1))

\* C7 witness: the raw term "_B " becomes the pattern %B%.
C7_Witness ==
    /\ Handled("dissociate_terms")
    /\ Queried
    /\ Req.term_a = <<"_", "B", " ">>
    /\ Stmt.pat_a = <<"%", "B", "%">>

\* the ?limit= argument is an integer of 1..MaxLimit
LimitInRange(arg) ==
    IF arg = None THEN FALSE
    ELSE IF ParseInt(arg[1]) = None THEN FALSE
    ELSE ParseInt(arg[1])[1] \in 1..MaxLimit

\* C8: the row limit of the terms query is an integer of 1..5000, the
\* client's value when that is in range and 1000 otherwise, and neither the
\* studies list nor count exceeds it.
C8_LimitBounded ==
    (Handled("dissociate_terms") /\ Queried) =>
        /\ Stmt.lim \in 1..MaxLimit
        /\ ~LimitInRange(Req.args.limit) => Stmt.lim = DefaultLimit
        /\ LimitInRange(Req.args.limit) => Stmt.lim = ParseInt(Req.args.limit[1])[1]
        /\ Resp.status = 200
        /\ Resp.body.count <= Stmt.lim
        /\ Len(Resp.body.studies) <= Stmt.lim
        /\ Resp.body.count = Len(Resp.body.studies)

\* C8 witness: ?limit=1 cuts a result of several studies down to one.
C8_Witness ==
    /\ Handled("dissociate_terms")
    /\ Queried
    /\ Req.args.limit = Some(<<"1">>)
    /\ Resp.body.count = 1
    /\ Cardinality({m \in metadata : ILike(m.title, Stmt.pat_a)
                                      /\ NotILike(m.title, Stmt.pat_b)}) > 1

\* C9: at most one engine is ever created, every call that returns returns
\* the same handle, and a call that raises leaves the handle as it was.
C9_EngineCreatedOnce ==
    /\ created <= 1
    /\ \A t \in Threads, u \in Threads :
          (ret[t] # None /\ ret[u] # None /\ ~ret[t][1].raised /\ ~ret[u][1].raised)
              => ret[t][1].value = ret[u][1].value

\* C10: create_app binds every endpoint to one view function and returns, so
\* the module binds app; /dissociate/locations is served by the function that
\* validates its coordinates (the def of line 167).
C10_AppConstructed ==
    /\ app # "AssertionError"
    /\ \A d \in view_functions, e \in view_functions :
          d.endpoint = e.endpoint => d.view = e.view
    /\ app = "bound" =>
           [endpoint |-> "dissociate_locations", view |-> "dissociate_locations@167"]
               \in view_functions

====
